---- MODULE Spec2Model ----
(***************************************************************************)
(* Model of src/feature/__init__.py: the import-time choice of the MFCC    *)
(* implementation (BOB, else the slower MFCC module), the closure factory  *)
(* get_extractor, and mix_feature, which runs the bound MFCC extractor and *)
(* the LPC extractor on one tuple and concatenates the two matrices along  *)
(* axis 1.  The extractor modules, the wrapped extract_func and numpy are  *)
(* the environment: their outcomes (a returned value or a raised error)    *)
(* are inputs of the actions.                                              *)
(***************************************************************************)
EXTENDS Integers, Sequences, FiniteSets, TLC

\* ------------------------------------------------------------------ bounds
MaxFrames == 1      \* frame counts of the extractors' matrices: 0..MaxFrames
MaxDims == 1        \* feature dimensions of the MFCC matrices: 1..MaxDims
MaxSigLen == 1      \* lengths of the raw signals: 0..MaxSigLen
MaxCalls == 3       \* calls made after the module is imported

\* ------------------------------------------------------- Python values
\* An element of an input tuple: a scalar (a sample rate, an id: no len())
\* or a raw signal of n samples.
Scalar == [kind |-> "scalar", n |-> 0]
Signal(n) == [kind |-> "signal", n |-> n]
Elems == {Scalar} \cup {Signal(n) : n \in 0..MaxSigLen}
\* The input tuples: the empty tuple, a 1-tuple, the pairs (fs, x) for every
\* element x, and a triple.
Tuples == {<<>>, <<Scalar>>, <<Scalar, Signal(0), Scalar>>}
            \cup {<<Scalar, x>> : x \in Elems}

\* Outcome of a call: it returns a value or raises an error.
Err(type, text) == [type |-> type, text |-> text]
Return(v) == [kind |-> "return", val |-> v]
Raise(e) == [kind |-> "raise", err |-> e]
NotCalled == [kind |-> "none"]
None == "None"

\* `except Exception` catches every error class but the BaseException-only
\* ones (SystemExit, KeyboardInterrupt, GeneratorExit).
IsException(e) == e.type \notin {"SystemExit", "KeyboardInterrupt", "GeneratorExit"}

\* Outcomes of importing a module: it loads, or its import raises.
LoadErrors(m) == {Err("ImportError", m), Err("SystemExit", m)}
LoadOutcomes(m) == {Return(None)} \cup {Raise(e) : e \in LoadErrors(m)}

\* A feature matrix of shape (F, D) produced by extractor impl; every cell
\* carries its origin so that a moved or altered value is visible.
Matrix(impl, F, D) ==
  [shape |-> <<F, D>>,
   data |-> [i \in 1..F |-> [j \in 1..D |-> <<impl, i, j>>]]]

\* Outcomes of <impl>.extract(tup): a matrix, or an error of the extractor.
\* The MFCC variants give 1..MaxDims coefficients, LPC gives MaxDims + 1.
Dims(impl) == IF impl = "LPC" THEN {MaxDims + 1} ELSE 1..MaxDims
ExtractOutcomes(impl) ==
  {Return(Matrix(impl, F, D)) : F \in 0..MaxFrames, D \in Dims(impl)}
    \cup {Raise(Err("ValueError", impl))}

\* len() of a matrix is its first dimension.
len(m) == m.shape[1]

\* np.concatenate((a, b), axis=1) on two 2-D arrays.
ShapeMismatch == Err("ValueError", "all the input array dimensions except for the concatenation axis must match exactly")
concatenate(a, b) ==
  IF a.shape[1] # b.shape[1]
  THEN Raise(ShapeMismatch)
  ELSE Return([shape |-> <<a.shape[1], a.shape[2] + b.shape[2]>>,
               data |-> [i \in 1..a.shape[1] |-> a.data[i] \o b.data[i]]])

\* len(tup[1]): the subscript raises on a tuple shorter than two, len()
\* raises on an element without a length.
\* (SignalLen_guarded: a variant that never raises.)
SignalLen_guarded(tup) ==
  IF Len(tup) < 2 \/ tup[2].kind # "signal" THEN Return(0) ELSE Return(tup[2].n)
SignalLen(tup) ==
  IF Len(tup) < 2 THEN Raise(Err("IndexError", "tuple index out of range"))
  ELSE IF tup[2].kind # "signal" THEN Raise(Err("TypeError", "object has no len()"))
  ELSE Return(tup[2].n)

\* The lines print() writes: the sequence of the printed arguments.
ErrorLine(e) == <<e.text>>
WarningLine == <<"Warning: failed to import Bob, will use a slower version of MFCC instead.">>
DiagLine(n) == <<"ERROR.. failed to extract mfcc feature:", n>>

\* What the except clause writes (lines 16-17), per stream.
\* (HandlerOutput_silent drops print(e); HandlerOutput_stdout forgets
\* file=sys.stderr on the warning.)
HandlerOutput_silent(e) == [err |-> <<WarningLine>>, out |-> <<>>]
HandlerOutput_stdout(e) == [err |-> <<ErrorLine(e)>>, out |-> <<WarningLine>>]
HandlerOutput(e) == [err |-> <<ErrorLine(e), WarningLine>>, out |-> <<>>]

\* The condition of line 30: len(mfcc) == 0.
\* (IsEmpty_short: a variant that also takes a one-frame result for empty.)
IsEmpty_short(m) == m.shape[1] <= 1
IsEmpty(m) == len(m) = 0

\* One step of a call, as seen from outside the module.
Event(ev, by, args, kwargs) == [ev |-> ev, by |-> by, args |-> args, kwargs |-> kwargs]
ExtractEv(impl, tup) == Event("extract", impl, tup, {})
LenEv == Event("len", "mfcc", <<>>, {})
PrintEv == Event("print", "stderr", <<>>, {})
ConcatEv == Event("concatenate", "np", <<>>, {})
CallEv(func, tup, kwargs) == Event("call", func, tup, kwargs)

\* ------------------------------------------- the wrapped extract functions
ExtractFuncs == {"extract_1", "extract_2"}
Arity(func) == IF func = "extract_1" THEN 1 ELSE 2
Configs == {{}, {<<"sr", 16000>>, <<"win", 32>>}}

\* extract_func(*args, **kwargs): binding the arguments fails on a wrong
\* count; a deterministic function returns a value fixed by its arguments,
\* or raises an error of its own (here: on an empty signal).
PyCall(func, args, kwargs) ==
  IF Len(args) # Arity(func)
  THEN Raise(Err("TypeError", "wrong number of positional arguments"))
  ELSE IF \E i \in 1..Len(args) : args[i] = Signal(0)
  THEN Raise(Err("ValueError", func))
  ELSE Return([func |-> func, args |-> args, kwargs |-> kwargs])

\* ------------------------------------------------------------------ state
VARIABLES
  pc,        \* position in the module body: "resolve", "imports", "ready", "failed"
  MFCC,      \* the module the name MFCC is bound to: "BOB", "MFCC" or "unbound"
  imports,   \* the imports attempted so far, in order, with their outcomes
  stderr,    \* lines written to sys.stderr
  stdout,    \* lines written to sys.stdout
  closures,  \* the closures f made by get_extractor: their captured cells
  call,      \* the most recent operation and its arguments
  mfcc,      \* outcome of MFCC.extract in the most recent mix_feature
  lpc,       \* outcome of LPC.extract in the most recent mix_feature
  events,    \* the steps of the most recent operation, in order
  outcome,   \* how the most recent operation ended
  repeated,  \* the latest mix_feature call got the tuple of the call just before it
  ncalls     \* number of calls made after import

vars == <<pc, MFCC, imports, stderr, stdout, closures, call, mfcc, lpc,
          events, outcome, repeated, ncalls>>

Call(op, callee, func, kwargs, tup) ==
  [op |-> op, callee |-> callee, func |-> func, kwargs |-> kwargs, tup |-> tup]

Init ==
  /\ pc = "resolve"
  /\ MFCC = "unbound"
  /\ imports = <<>>
  /\ stderr = <<>>
  /\ stdout = <<>>
  /\ closures = <<>>
  /\ call = Call("none", 0, "", {}, <<>>)
  /\ mfcc = NotCalled
  /\ lpc = NotCalled
  /\ events = <<>>
  /\ outcome = NotCalled
  /\ repeated = FALSE
  /\ ncalls = 0

Import(m, o) == [module |-> m, outcome |-> o]

\* ------------------------------------------------ module body, lines 13-18
\* try: from . import BOB as MFCC
\* except Exception as e: print(e); print("Warning..."); from . import MFCC
ResolveRun(fast, fallback) ==
  IF fast.kind = "return"
  THEN [binding |-> "BOB", imports |-> <<Import("BOB", fast)>>,
        err |-> <<>>, out |-> <<>>, outcome |-> Return(None)]
  ELSE IF ~IsException(fast.err)
  THEN [binding |-> "unbound", imports |-> <<Import("BOB", fast)>>,
        err |-> <<>>, out |-> <<>>, outcome |-> fast]
  ELSE [binding |-> IF fallback.kind = "return" THEN "MFCC" ELSE "unbound",
        imports |-> <<Import("BOB", fast), Import("MFCC", fallback)>>,
        err |-> HandlerOutput(fast.err).err, out |-> HandlerOutput(fast.err).out,
        outcome |-> fallback]

ResolveMFCC(fast, fallback) ==
  /\ pc = "resolve"
  /\ LET r == ResolveRun(fast, fallback) IN
       /\ MFCC' = r.binding
       /\ imports' = imports \o r.imports
       /\ stderr' = stderr \o r.err
       /\ stdout' = stdout \o r.out
       /\ outcome' = r.outcome
       /\ pc' = IF r.outcome.kind = "return" THEN "imports" ELSE "failed"
  /\ call' = Call("resolve", 0, "", {}, <<>>)
  /\ events' = <<>>
  /\ UNCHANGED <<closures, mfcc, lpc, repeated, ncalls>>

\* ------------------------------------------------ module body, lines 19-20
\* from . import LPC ; import numpy as np
ImportRest(lpcLoad, npLoad) ==
  /\ pc = "imports"
  /\ imports' = imports \o
       (IF lpcLoad.kind = "return"
        THEN <<Import("LPC", lpcLoad), Import("numpy", npLoad)>>
        ELSE <<Import("LPC", lpcLoad)>>)
  /\ outcome' = IF lpcLoad.kind = "return" THEN npLoad ELSE lpcLoad
  /\ pc' = IF lpcLoad.kind = "return" /\ npLoad.kind = "return"
           THEN "ready" ELSE "failed"
  /\ call' = Call("imports", 0, "", {}, <<>>)
  /\ events' = <<>>
  /\ UNCHANGED <<MFCC, stderr, stdout, closures, mfcc, lpc, repeated, ncalls>>

\* ------------------------------------------------ get_extractor, lines 22-25
\* def get_extractor(extract_func, **kwargs): def f(tup): ...; return f
\* A new closure f captures extract_func and kwargs; nothing is called yet.
\* (get_extractor_shared: a variant in which all closures share the latest
\* kwargs.)
get_extractor_shared(extract_func, kwargs) ==
  /\ pc = "ready"
  /\ ncalls < MaxCalls
  /\ closures' = [k \in 1..Len(closures) + 1 |->
                    [extract_func |-> IF k <= Len(closures)
                                      THEN closures[k].extract_func
                                      ELSE extract_func,
                     kwargs |-> kwargs]]
  /\ call' = Call("get_extractor", Len(closures) + 1, extract_func, kwargs, <<>>)
  /\ events' = <<>>
  /\ outcome' = Return(Len(closures) + 1)
  /\ mfcc' = NotCalled
  /\ lpc' = NotCalled
  /\ ncalls' = ncalls + 1
  /\ UNCHANGED <<pc, MFCC, imports, stderr, stdout, repeated>>
get_extractor(extract_func, kwargs) ==
  /\ pc = "ready"
  /\ ncalls < MaxCalls
  /\ closures' = Append(closures, [extract_func |-> extract_func, kwargs |-> kwargs])
  /\ call' = Call("get_extractor", Len(closures) + 1, extract_func, kwargs, <<>>)
  /\ events' = <<>>
  /\ outcome' = Return(Len(closures) + 1)
  /\ mfcc' = NotCalled
  /\ lpc' = NotCalled
  /\ ncalls' = ncalls + 1
  /\ UNCHANGED <<pc, MFCC, imports, stderr, stdout, repeated>>

\* ------------------------------------------------------------ f, lines 23-24
\* def f(tup): return extract_func(*tup, **kwargs)
\* k names one of the closures made so far.
f(k, tup) ==
  /\ pc = "ready"
  /\ ncalls < MaxCalls
  /\ k \in 1..Len(closures)
  /\ LET extract_func == closures[k].extract_func
         kwargs == closures[k].kwargs
     IN /\ call' = Call("f", k, extract_func, kwargs, tup)
        /\ events' = <<CallEv(extract_func, tup, kwargs)>>
        /\ outcome' = PyCall(extract_func, tup, kwargs)
  /\ mfcc' = NotCalled
  /\ lpc' = NotCalled
  /\ ncalls' = ncalls + 1
  /\ UNCHANGED <<pc, MFCC, imports, stderr, stdout, closures, repeated>>

\* ------------------------------------------------- mix_feature, lines 27-32
\* The run of one call: binding is the module bound to MFCC, mfccOut and
\* lpcOut are what the two extractors do when they are called.
\* (MixRun_lpc_first: a variant that runs the LPC extractor first.)
MixRun_lpc_first(binding, tup, mfccOut, lpcOut) ==
  IF lpcOut.kind = "raise"
  THEN [mfcc |-> NotCalled, lpc |-> lpcOut,
        events |-> <<ExtractEv("LPC", tup)>>,
        err |-> <<>>, outcome |-> lpcOut]
  ELSE IF mfccOut.kind = "raise"
  THEN [mfcc |-> mfccOut, lpc |-> lpcOut,
        events |-> <<ExtractEv("LPC", tup), ExtractEv(binding, tup)>>,
        err |-> <<>>, outcome |-> mfccOut]
  ELSE IF IsEmpty(mfccOut.val)
  THEN LET n == SignalLen(tup) IN
       IF n.kind = "raise"
       THEN [mfcc |-> mfccOut, lpc |-> lpcOut,
             events |-> <<ExtractEv("LPC", tup), ExtractEv(binding, tup), LenEv>>,
             err |-> <<>>, outcome |-> n]
       ELSE [mfcc |-> mfccOut, lpc |-> lpcOut,
             events |-> <<ExtractEv("LPC", tup), ExtractEv(binding, tup), LenEv,
                          PrintEv, ConcatEv>>,
             err |-> <<DiagLine(n.val)>>,
             outcome |-> concatenate(mfccOut.val, lpcOut.val)]
  ELSE [mfcc |-> mfccOut, lpc |-> lpcOut,
        events |-> <<ExtractEv("LPC", tup), ExtractEv(binding, tup), LenEv, ConcatEv>>,
        err |-> <<>>, outcome |-> concatenate(mfccOut.val, lpcOut.val)]
MixRun(binding, tup, mfccOut, lpcOut) ==
  IF mfccOut.kind = "raise"
  THEN [mfcc |-> mfccOut, lpc |-> NotCalled,
        events |-> <<ExtractEv(binding, tup)>>,
        err |-> <<>>, outcome |-> mfccOut]
  ELSE IF lpcOut.kind = "raise"
  THEN [mfcc |-> mfccOut, lpc |-> lpcOut,
        events |-> <<ExtractEv(binding, tup), ExtractEv("LPC", tup)>>,
        err |-> <<>>, outcome |-> lpcOut]
  ELSE IF IsEmpty(mfccOut.val)
  THEN LET n == SignalLen(tup) IN
       IF n.kind = "raise"
       THEN [mfcc |-> mfccOut, lpc |-> lpcOut,
             events |-> <<ExtractEv(binding, tup), ExtractEv("LPC", tup), LenEv>>,
             err |-> <<>>, outcome |-> n]
       ELSE [mfcc |-> mfccOut, lpc |-> lpcOut,
             events |-> <<ExtractEv(binding, tup), ExtractEv("LPC", tup), LenEv,
                          PrintEv, ConcatEv>>,
             err |-> <<DiagLine(n.val)>>,
             outcome |-> concatenate(mfccOut.val, lpcOut.val)]
  ELSE [mfcc |-> mfccOut, lpc |-> lpcOut,
        events |-> <<ExtractEv(binding, tup), ExtractEv("LPC", tup), LenEv, ConcatEv>>,
        err |-> <<>>, outcome |-> concatenate(mfccOut.val, lpcOut.val)]

\* (mix_feature_rebinding: a variant that falls back to the slower MFCC
\* module when the extraction raises.)
mix_feature_rebinding(tup, mfccOut, lpcOut) ==
  /\ pc = "ready"
  /\ ncalls < MaxCalls
  /\ LET r == MixRun(MFCC, tup, mfccOut, lpcOut) IN
       /\ mfcc' = r.mfcc
       /\ lpc' = r.lpc
       /\ events' = r.events
       /\ stderr' = stderr \o r.err
       /\ outcome' = r.outcome
       /\ MFCC' = IF r.mfcc.kind = "raise" THEN "MFCC" ELSE MFCC
  /\ call' = Call("mix_feature", 0, "", {}, tup)
  /\ repeated' = (call.op = "mix_feature" /\ call.tup = tup)
  /\ ncalls' = ncalls + 1
  /\ UNCHANGED <<pc, imports, stdout, closures>>
mix_feature(tup, mfccOut, lpcOut) ==
  /\ pc = "ready"
  /\ ncalls < MaxCalls
  /\ LET r == MixRun(MFCC, tup, mfccOut, lpcOut) IN
       /\ mfcc' = r.mfcc
       /\ lpc' = r.lpc
       /\ events' = r.events
       /\ stderr' = stderr \o r.err
       /\ outcome' = r.outcome
  /\ call' = Call("mix_feature", 0, "", {}, tup)
  /\ repeated' = (call.op = "mix_feature" /\ call.tup = tup)
  /\ ncalls' = ncalls + 1
  /\ UNCHANGED <<pc, MFCC, imports, stdout, closures>>

Next ==
  \/ \E fast \in LoadOutcomes("BOB"), fallback \in LoadOutcomes("MFCC") :
       ResolveMFCC(fast, fallback)
  \/ \E lpcLoad \in LoadOutcomes("LPC"), npLoad \in LoadOutcomes("numpy") :
       ImportRest(lpcLoad, npLoad)
  \/ \E extract_func \in ExtractFuncs, kwargs \in Configs :
       get_extractor(extract_func, kwargs)
  \/ \E k \in 1..MaxCalls, tup \in Tuples : f(k, tup)
  \/ \E tup \in Tuples, mfccOut \in ExtractOutcomes(MFCC),
        lpcOut \in ExtractOutcomes("LPC") :
       mix_feature(tup, mfccOut, lpcOut)

Spec == Init /\ [][Next]_vars

\* ------------------------------------------------------- derived notions
Range(s) == {s[i] : i \in 1..Len(s)}
IsPrefix(s, t) == Len(s) <= Len(t) /\ \A i \in 1..Len(s) : s[i] = t[i]
Occurrences(e, s) == Cardinality({i \in 1..Len(s) : s[i] = e})

IsMix == call.op = "mix_feature"
BothReturned == IsMix /\ mfcc.kind = "return" /\ lpc.kind = "return"
\* the tuple's second element exists and has a length
HasSignal(tup) == Len(tup) >= 2 /\ tup[2].kind = "signal"
FastFailed == Len(imports) >= 1 /\ imports[1].outcome.kind = "raise"
\* the steps of a mix_feature call that runs to its end
Canonical ==
  <<ExtractEv(MFCC, call.tup), ExtractEv("LPC", call.tup), LenEv>>
    \o (IF mfcc.kind = "return" /\ len(mfcc.val) = 0 THEN <<PrintEv>> ELSE <<>>)
    \o <<ConcatEv>>

\* C1: whenever the MFCC extractor returned shape (F, M) and the LPC
\* extractor returned shape (F, L) with the same F, mix_feature returns a
\* matrix of shape (F, M+L) whose every row is the MFCC row followed by the
\* LPC row, values unchanged.
C1_Concatenation ==
  (BothReturned /\ len(mfcc.val) = len(lpc.val)) =>
    /\ outcome.kind = "return"
    /\ LET F == mfcc.val.shape[1]
           M == mfcc.val.shape[2]
           L == lpc.val.shape[2]
           out == outcome.val
       IN /\ out.shape = <<F, M + L>>
          /\ Len(out.data) = F
          /\ \A i \in 1..F :
               /\ Len(out.data[i]) = M + L
               /\ \A j \in 1..M : out.data[i][j] = mfcc.val.data[i][j]
               /\ \A j \in 1..L : out.data[i][M + j] = lpc.val.data[i][j]

\* C2: whenever the two extractors returned matrices with different frame
\* counts, mix_feature ends in the shape-mismatch error of the concatenation
\* step and returns no matrix.
C2_MismatchFails ==
  (BothReturned /\ len(mfcc.val) # len(lpc.val)) =>
    /\ outcome.kind = "raise"
    /\ outcome.err = ShapeMismatch
    /\ events[Len(events)] = ConcatEv

\* C3: whenever both extractors returned zero-frame matrices, mix_feature
\* does not raise: it writes one diagnostic line reporting the length of the
\* tuple's second element and returns the concatenation, of shape (0, M+L).
C3_EmptyTolerated ==
  (BothReturned /\ len(mfcc.val) = 0 /\ len(lpc.val) = 0) =>
    /\ outcome.kind = "return"
    /\ outcome.val.shape = <<0, mfcc.val.shape[2] + lpc.val.shape[2]>>
    /\ Occurrences(PrintEv, events) = 1
    /\ HasSignal(call.tup)
    /\ stderr # <<>>
    /\ stderr[Len(stderr)] = DiagLine(call.tup[2].n)

\* C4 (as claimed): if loading the fast variant raised any error, module
\* initialization does not propagate that error, a diagnostic line with the
\* error's text is on stderr, the fallback is bound, and every later
\* mix_feature call invokes the fallback's extract.
C4_FallbackAlways ==
  FastFailed =>
    /\ ~(pc = "failed" /\ outcome = imports[1].outcome)
    /\ \E i \in 1..Len(stderr) : stderr[i] = ErrorLine(imports[1].outcome.err)
    /\ MFCC = "MFCC"
    /\ (IsMix => events[1] = ExtractEv("MFCC", call.tup))

\* C4 (amended): if loading the fast variant raised an error that is an
\* Exception, that error is not propagated and stderr starts with the line
\* of the error's text, then the warning; if the fallback then loads, it is
\* bound and every later mix_feature call invokes its extract; if the
\* fallback's load raises too, that error propagates and nothing is bound.
\* An error that is not an Exception propagates at once, nothing written.
C4_Fallback ==
  FastFailed =>
    IF IsException(imports[1].outcome.err)
    THEN /\ ~(pc = "failed" /\ outcome = imports[1].outcome)
         /\ Len(stderr) >= 2
         /\ stderr[1] = ErrorLine(imports[1].outcome.err)
         /\ stderr[2] = WarningLine
         /\ Len(imports) >= 2
         /\ imports[2].module = "MFCC"
         /\ IF imports[2].outcome.kind = "return"
            THEN /\ MFCC = "MFCC"
                 /\ call.op = "resolve" => outcome.kind = "return"
                 /\ IsMix => events[1] = ExtractEv("MFCC", call.tup)
            ELSE /\ MFCC = "unbound"
                 /\ pc = "failed"
                 /\ outcome = imports[2].outcome
    ELSE /\ pc = "failed"
         /\ outcome = imports[1].outcome
         /\ MFCC = "unbound"
         /\ stderr = <<>>

C4_Witness ==
  /\ FastFailed
  /\ IsException(imports[1].outcome.err)
  /\ IsMix
  /\ outcome.kind = "return"
  /\ events[1].by = "MFCC"

\* C5 (as claimed): the resolution step never raises and never writes to
\* standard output, whatever the two loads do.
C5_NeverRaises ==
  /\ stdout = <<>>
  /\ call.op = "resolve" => outcome.kind # "raise"

\* C5 (amended): the resolution step never writes to standard output; it
\* raises exactly when the fast load raises an error that is not an
\* Exception (that error, nothing written) or when the fast load raises an
\* Exception and the fallback's load raises too (the fallback's error, after
\* the two diagnostic lines); otherwise it ends normally, having written
\* nothing (fast variant loaded) or the two diagnostic lines (fallback).
C5_Resolution ==
  /\ stdout = <<>>
  /\ call.op = "resolve" =>
       LET fast == imports[1].outcome IN
       IF fast.kind = "return"
       THEN outcome.kind = "return" /\ stderr = <<>> /\ Len(imports) = 1
       ELSE IF ~IsException(fast.err)
       THEN outcome = fast /\ stderr = <<>> /\ Len(imports) = 1
       ELSE /\ Len(imports) = 2
            /\ outcome = imports[2].outcome
            /\ Len(stderr) = 2

C5_Witness ==
  /\ call.op = "resolve"
  /\ Len(imports) = 2
  /\ outcome.kind = "raise"
  /\ Len(stderr) = 2

\* C6: once the module is initialized exactly one of the two MFCC variants
\* is bound, no call of get_extractor, f or mix_feature (returning or
\* raising) changes the binding or imports anything again, and every
\* mix_feature call invokes the extract of the bound variant.
C6_BindingFixed ==
  /\ [](pc = "ready" =>
          /\ MFCC \in {"BOB", "MFCC"}
          /\ IsMix => events[1] = ExtractEv(MFCC, call.tup))
  /\ [][pc = "ready" => (pc' = "ready" /\ MFCC' = MFCC /\ imports' = imports)]_vars

C6_Witness ==
  /\ pc = "ready"
  /\ closures # <<>>
  /\ IsMix
  /\ outcome.kind = "raise"
  /\ ncalls = MaxCalls

\* C7: a closure keeps the extract_func and the keyword configuration it
\* was built with, whatever is built or called later; every call of it with
\* a tuple of extract_func's arity invokes extract_func once with the
\* tuple's elements in order and exactly that configuration, and ends as
\* that invocation ends (the same returned value, untransformed).
C7_PassThrough ==
  [][/\ Len(closures') >= Len(closures)
     /\ \A k \in 1..Len(closures) : closures'[k] = closures[k]
     /\ (call'.op = "get_extractor" /\ ncalls' # ncalls) =>
          /\ closures' = Append(closures, [extract_func |-> call'.func,
                                           kwargs |-> call'.kwargs])
          /\ events' = <<>>
     /\ (call'.op = "f" /\ ncalls' # ncalls) =>
          LET c == closures[call'.callee] IN
          Len(call'.tup) = Arity(c.extract_func) =>
            /\ events' = <<CallEv(c.extract_func, call'.tup, c.kwargs)>>
            /\ outcome' = PyCall(c.extract_func, call'.tup, c.kwargs)
            /\ (\A i \in 1..Len(call'.tup) : call'.tup[i] # Signal(0)) =>
                 /\ outcome'.kind = "return"
                 /\ outcome'.val.func = c.extract_func
                 /\ outcome'.val.args = call'.tup
                 /\ outcome'.val.kwargs = c.kwargs
    ]_vars

C7_Witness ==
  /\ call.op = "f"
  /\ Len(closures) = 2
  /\ closures[1].kwargs # closures[2].kwargs
  /\ call.callee = 1
  /\ Len(call.tup) = 2
  /\ call.tup[1] # call.tup[2]
  /\ outcome.kind = "return"
  /\ outcome.val.kwargs = closures[1].kwargs

\* C8: stderr grows only in the resolution step when the fast load failed
\* and in a mix_feature call whose MFCC result has zero frames.  When an
\* extractor raises, when the frame counts differ with a non-empty MFCC
\* result, and when a closure gets a tuple of the wrong length, the call
\* ends with the underlying error itself and writes nothing.
C8_Diagnostics ==
  [][/\ stderr' # stderr =>
          \/ call'.op = "resolve" /\ imports'[1].outcome.kind = "raise"
          \/ /\ call'.op = "mix_feature"
             /\ mfcc'.kind = "return"
             /\ len(mfcc'.val) = 0
     /\ (call'.op = "mix_feature" /\ ncalls' # ncalls) =>
          /\ mfcc'.kind = "raise" => (outcome' = mfcc' /\ stderr' = stderr)
          /\ (mfcc'.kind = "return" /\ lpc'.kind = "raise") =>
               (outcome' = lpc' /\ stderr' = stderr)
          /\ (/\ mfcc'.kind = "return"
              /\ lpc'.kind = "return"
              /\ len(mfcc'.val) > 0
              /\ len(mfcc'.val) # len(lpc'.val)) =>
               (outcome' = Raise(ShapeMismatch) /\ stderr' = stderr)
     /\ (/\ call'.op = "f"
         /\ ncalls' # ncalls
         /\ Len(call'.tup) # Arity(call'.func)) =>
          /\ outcome' = PyCall(call'.func, call'.tup, call'.kwargs)
          /\ outcome'.kind = "raise"
          /\ outcome'.err.type = "TypeError"
          /\ stderr' = stderr
    ]_vars

C8_Witness ==
  /\ BothReturned
  /\ len(mfcc.val) > 0
  /\ len(mfcc.val) # len(lpc.val)
  /\ outcome.kind = "raise"
  /\ FastFailed
  /\ Len(stderr) = 2

\* C9: the steps of every mix_feature call are, in this order, one MFCC
\* extraction with the tuple, one LPC extraction with the same tuple, the
\* emptiness check (with the diagnostic when the MFCC result has no frame)
\* and the concatenation; a step that raises ends the call.  So LPC is not
\* invoked when MFCC raises, nothing is written when LPC raises, and a call
\* repeating the previous call's tuple extracts again.
C9_StepOrder ==
  IsMix =>
    /\ events # <<>>
    /\ IsPrefix(events, Canonical)
    /\ Occurrences(ExtractEv(MFCC, call.tup), events) = 1
    /\ mfcc.kind # "none"
    /\ mfcc.kind = "raise" =>
         /\ events = <<ExtractEv(MFCC, call.tup)>>
         /\ lpc = NotCalled
         /\ outcome = mfcc
    /\ mfcc.kind = "return" =>
         /\ Len(events) >= 2
         /\ Occurrences(ExtractEv("LPC", call.tup), events) = 1
         /\ lpc.kind # "none"
    /\ lpc.kind = "raise" =>
         /\ Len(events) = 2
         /\ PrintEv \notin Range(events)
         /\ outcome = lpc
    /\ BothReturned =>
         /\ Len(events) >= 3
         /\ (PrintEv \in Range(events)) => len(mfcc.val) = 0
         /\ (ConcatEv \in Range(events)) => events = Canonical
         /\ outcome.kind = "return" => events = Canonical

C9_Witness ==
  /\ IsMix
  /\ repeated
  /\ outcome.kind = "return"
  /\ PrintEv \in Range(events)
  /\ Len(events) = 5

\* C10: when the MFCC result has zero frames and LPC returned, (a) a tuple
\* with fewer than two elements, or whose second element has no length,
\* makes mix_feature raise before writing the diagnostic and before the
\* concatenation; (b) otherwise, with a non-empty LPC result, the diagnostic
\* is written and the concatenation then fails; so a matrix is returned
\* exactly when the second element has a length and LPC has zero frames too.
C10_EmptyBranch ==
  (IsMix /\ mfcc.kind = "return" /\ len(mfcc.val) = 0) =>
    /\ (lpc.kind = "return" /\ ~HasSignal(call.tup)) =>
         /\ outcome.kind = "raise"
         /\ outcome.err.type = (IF Len(call.tup) < 2 THEN "IndexError" ELSE "TypeError")
         /\ PrintEv \notin Range(events)
         /\ ConcatEv \notin Range(events)
    /\ (lpc.kind = "return" /\ HasSignal(call.tup) /\ len(lpc.val) # 0) =>
         /\ PrintEv \in Range(events)
         /\ stderr # <<>>
         /\ stderr[Len(stderr)] = DiagLine(call.tup[2].n)
         /\ events[Len(events)] = ConcatEv
         /\ outcome = Raise(ShapeMismatch)
    /\ outcome.kind = "return" <=>
         (lpc.kind = "return" /\ HasSignal(call.tup) /\ len(lpc.val) = 0)

C10_Witness ==
  /\ BothReturned
  /\ len(mfcc.val) = 0
  /\ len(lpc.val) = 0
  /\ Len(call.tup) = 2
  /\ ~HasSignal(call.tup)
  /\ outcome.kind = "raise"
  /\ outcome.err.type = "TypeError"
====
